---- MODULE Spec2Model ----
(***************************************************************************)
(* KVStorage<Clock> (include/kvstorage.hpp) driven by the MockClock of the *)
(* test suite.                                                             *)
(*                                                                         *)
(* Memory model.  storage_ is a std::map whose nodes live on the heap; a   *)
(* StorageIterator is the address of a node, and the std::string_view key  *)
(* of key_to_storage_iter_ is the address of the key bytes held inside a   *)
(* node.  The heap is a finite array of node-sized slots, mem; storage_ is *)
(* the set of slots linked into the tree.  Erasing a node unlinks and      *)
(* frees its slot; the bytes of a freed slot stay as they were until the   *)
(* allocator hands the slot out again.  A read through an address of a     *)
(* freed slot is undefined behaviour; its outcomes here are: the bytes now *)
(* at that address are read (stale bytes, or the bytes of the node that    *)
(* took the slot over), or the process traps (crashed).  An erase through  *)
(* an address of a freed slot that has not been handed out again is a      *)
(* double free and traps.                                                  *)
(***************************************************************************)
EXTENDS Integers, Sequences, FiniteSets, TLC

\* ---------------------------------------------------------------- bounds
MaxSlots == 2       \* node-sized heap slots the allocator can hand out
MaxTime  == 2       \* the clock is not advanced beyond this instant
MaxTTL   == 1       \* ttl arguments are drawn from 0..MaxTTL
MaxCount == 2       \* count arguments are drawn from 0..MaxCount
MaxBatch == 3       \* the constructor is given at most MaxBatch entries

\* Keys are byte strings, written as sequences of byte codes: "a", "aa".
Keys   == {<<1>>, <<1, 1>>}
\* startKey arguments of getManySorted: "", "aa" and "ab" (stored nowhere).
StartKeys == {<<>>, <<1, 1>>, <<1, 2>>}
\* Keys given to the constructor: "a", "aa", "b".
BatchKeys == Keys \cup {<<2>>}
\* startKey arguments of getManySorted on a constructed store.
BatchStartKeys == StartKeys \cup {<<1>>, <<2>>}
Values == {"v1", "v2"}
TTLs   == 0..MaxTTL
Slots  == 1..MaxSlots
Counts == 0..MaxCount

\* std::nullopt, and the mark left by a call that trapped instead of returning.
Absent  == "nullopt"
Trapped == "trap"

\* TimePoint::max(), the expire_time stored for ttl == 0.
TimePointMax == 1000000

VARIABLES
    current_time_,          \* MockClock::current_time_, in seconds
    mem,                    \* heap: slot -> bytes of a std::map node
    storage_,               \* std::map: the slots linked into the tree
    key_to_storage_iter_,   \* std::unordered_map<string_view, StorageIterator>
    crashed,                \* the process was terminated by a trap
    last,                   \* the last call made and what it returned
    entries,                \* the part of the constructor's span not yet stored
    evicted                 \* history: keys returned by removeOneExpiredEntry
                            \* and not passed to set since

vars == <<current_time_, mem, storage_, key_to_storage_iter_, crashed, last,
          entries, evicted>>

\* ------------------------------------------------- TransparentLess
Min(a, b) == IF a < b THEN a ELSE b

\* std::string / std::string_view operator<: byte-wise lexicographic order.
TransparentLess(lhs, rhs) ==
    \E i \in 1..(Min(Len(lhs), Len(rhs)) + 1) :
        /\ \A j \in 1..(i - 1) : lhs[j] = rhs[j]
        /\ \/ i > Len(lhs) /\ i <= Len(rhs)
           \/ i <= Len(lhs) /\ i <= Len(rhs) /\ lhs[i] < rhs[i]

\* ------------------------------------------------------------ the heap
\* struct Entry plus the key of the map node that holds it.
Node(k, v, t) == [key |-> k, value |-> v, expire_time |-> t]

\* A slot that was never handed out.
BlankNode == Node(<<>>, "", 0)

\* The heap and the two containers of a KVStorage, st below: the current
\* ones, or those an operation has produced so far.
Members ==
    [mem |-> mem, storage_ |-> storage_,
     key_to_storage_iter_ |-> key_to_storage_iter_, crashed |-> crashed]

FreeSlots(st) == DOMAIN st.mem \ st.storage_

\* The slots the allocator can hand out next: any freed slot that was used
\* before, or the first of the slots never used (these are interchangeable).
AllocSlots(st) ==
    LET blank == {s \in FreeSlots(st) : st.mem[s] = BlankNode}
        used  == FreeSlots(st) \ blank
    IN  used \cup {s \in blank : \A t \in blank : s <= t}

\* The bytes of a freed slot can be read again only through a hash node that
\* still points at them: the key bytes through a string_view, the Entry
\* through a StorageIterator.  Bytes nothing can read again are dropped.
Reclaim(m, tree, locs) ==
    [s \in DOMAIN m |->
        LET viewed  == s \in tree \/ \E e \in locs : e.view = s
            pointed == s \in tree \/ \E e \in locs : e.iter = s
        IN  Node(IF viewed THEN m[s].key ELSE BlankNode.key,
                 IF pointed THEN m[s].value ELSE BlankNode.value,
                 IF pointed THEN m[s].expire_time ELSE BlankNode.expire_time)]

\* ------------------------------------------------------ MockClock
\* MockClock::now
Now == current_time_

\* ------------------------------------------------ std::map operations
\* storage_.find(key): the node of the tree whose key equals key, if any.
StorageFind(st, key) == {s \in st.storage_ : st.mem[s].key = key}

StoredKeys == {mem[s].key : s \in storage_}

\* In-order traversal of the tree: the nodes by ascending key.
RECURSIVE InOrder(_)
InOrder(S) ==
    IF S = {} THEN <<>>
    ELSE LET first == CHOOSE s \in S :
                        \A t \in S \ {s} : TransparentLess(mem[s].key, mem[t].key)
         IN  <<first>> \o InOrder(S \ {first})

\* Mutant of LowerBound: the scan starts at the first node of the tree.
LowerBoundAtBegin(order, key) == 1

\* storage_.lower_bound(key): position in the traversal of the first node
\* whose key is not less than key; one past the end when there is none.
LowerBound(order, key) ==
    LET hits == {i \in 1..Len(order) : ~TransparentLess(mem[order[i]].key, key)}
    IN  IF hits = {} THEN Len(order) + 1
        ELSE CHOOSE i \in hits : \A j \in hits : i <= j

\* ------------------------------------- std::unordered_map operations
\* A hash node: hkey is the key it was inserted under (its cached hash code
\* and bucket), view the slot whose key bytes its string_view points at,
\* iter the slot its StorageIterator points at.
Locator(k, v, i) == [hkey |-> k, view |-> v, iter |-> i]

\* key_to_storage_iter_.find(key): the hash nodes with key's hash code whose
\* string_view compares equal to key, read from the bytes at view.
FastFind(key) ==
    {e \in key_to_storage_iter_ : e.hkey = key /\ mem[e.view].key = key}

\* The comparison of find reads the bytes of a freed slot.
FindReadsFreed(key) ==
    \E e \in key_to_storage_iter_ : e.hkey = key /\ e.view \notin storage_

FastKeys == {e.hkey : e \in key_to_storage_iter_}

Called(op, arg, res) == [op |-> op, arg |-> arg, res |-> res]

\* The call traps: the process is terminated and its memory is gone.
Trap(op, arg) ==
    /\ crashed' = TRUE
    /\ last' = Called(op, arg, Trapped)
    /\ mem' = [s \in DOMAIN mem |-> BlankNode]
    /\ storage_' = {}
    /\ key_to_storage_iter_' = {}
    /\ evicted' = {}

\* ---------------------------------------------------------------- Init
\* The members of a KVStorage on entry to the constructor body, given the
\* span span and a heap of heap slots.
Constructing(span, heap) ==
    /\ current_time_ = 0
    /\ mem = [s \in heap |-> BlankNode]
    /\ storage_ = {}
    /\ key_to_storage_iter_ = {}
    /\ crashed = FALSE
    /\ last = Called("KVStorage", span, Absent)
    /\ entries = span
    /\ evicted = {}

\* KVStorage(entries, clock) with an empty span, as in the test fixtures.
Init == Constructing(<<>>, Slots)

\* The spans of at most MaxBatch entries, keys may repeat.
Batches ==
    UNION {[1..n -> BatchKeys \X Values \X TTLs] : n \in 0..MaxBatch}

\* KVStorage(entries, clock) with a span of entries, as in the test Construct;
\* the heap has a node for every entry.
InitBatch == \E span \in Batches : Constructing(span, 1..MaxBatch)

\* ------------------------------------------------------------- actions
\* MockClock::advance
advance(sec) ==
    /\ ~crashed /\ entries = <<>>
    /\ current_time_ + sec <= MaxTime
    /\ current_time_' = current_time_ + sec
    /\ last' = Called("advance", <<>>, Absent)
    /\ UNCHANGED <<mem, storage_, key_to_storage_iter_, crashed, entries, evicted>>

\* expire_time computed by set
ExpireTime(ttl) == IF ttl = 0 THEN TimePointMax ELSE Now + ttl

\* storage_.insert_or_assign(key, Entry): the node already holding key, or
\* else a node the allocator hands out.
InsertOrAssign(st, key) ==
    IF StorageFind(st, key) # {} THEN StorageFind(st, key) ELSE AllocSlots(st)

\* The body of set run on the members st: the members it can leave.
Store(st, key, value, ttl) ==
    UNION {
       LET mem1     == [st.mem EXCEPT
                           ![map_it] = Node(key, value, ExpireTime(ttl))]
           storage1 == st.storage_ \cup {map_it}
           \* key_to_storage_iter_[map_it->first]: the lookup of operator[]
           found    == {e \in st.key_to_storage_iter_ :
                           e.hkey = key /\ mem1[e.view].key = key}
           freed    == \E e \in st.key_to_storage_iter_ :
                           e.hkey = key /\ e.view \notin storage1
           Left(locs) ==
               [mem |-> Reclaim(mem1, storage1, locs), storage_ |-> storage1,
                key_to_storage_iter_ |-> locs, crashed |-> FALSE]
       IN  \* no hash node matches: operator[] inserts one
           (IF found = {}
            THEN {Left(st.key_to_storage_iter_
                          \cup {Locator(key, map_it, map_it)})}
            ELSE {})
           \* a hash node matches: its iterator is assigned
           \cup {Left((st.key_to_storage_iter_ \ {e})
                          \cup {Locator(key, e.view, map_it)}) : e \in found}
           \* the lookup reads a freed slot
           \cup (IF freed THEN {[st EXCEPT !.crashed = TRUE]} ELSE {})
       : map_it \in InsertOrAssign(st, key)}

\* The call op(arg) ends with the members o, having stored the keys keys.
Stored(o, op, arg, keys) ==
    IF o.crashed THEN Trap(op, arg)
    ELSE /\ mem' = o.mem
         /\ storage_' = o.storage_
         /\ key_to_storage_iter_' = o.key_to_storage_iter_
         /\ last' = Called(op, arg, Absent)
         /\ evicted' = evicted \ keys
         /\ UNCHANGED crashed

\* KVStorage::set
set(key, value, ttl) ==
    /\ ~crashed /\ entries = <<>>
    /\ \E o \in Store(Members, key, value, ttl) :
          Stored(o, "set", <<key, value, ttl>>, {key})
    /\ UNCHANGED <<current_time_, entries>>

\* The loop of the constructor over span, started on the members st.
RECURSIVE StoreAll(_, _)
StoreAll(st, span) ==
    IF st.crashed \/ span = <<>> THEN {st}
    ELSE UNION {StoreAll(o, Tail(span)) :
                   o \in Store(st, Head(span)[1], Head(span)[2], Head(span)[3])}

Reverse(span) == [i \in 1..Len(span) |-> span[Len(span) + 1 - i]]

\* Mutant of construct: the loop takes the entries from the back of the span.
constructFromBack ==
    /\ ~crashed /\ entries # <<>>
    /\ \E o \in StoreAll(Members, Reverse(entries)) :
          Stored(o, "KVStorage", entries,
                 {entries[i][1] : i \in 1..Len(entries)})
    /\ entries' = <<>>
    /\ UNCHANGED current_time_

\* KVStorage::KVStorage: the loop over entries, one set per triple
construct ==
    /\ ~crashed /\ entries # <<>>
    /\ \E o \in StoreAll(Members, entries) :
          Stored(o, "KVStorage", entries,
                 {entries[i][1] : i \in 1..Len(entries)})
    /\ entries' = <<>>
    /\ UNCHANGED current_time_

\* KVStorage::remove
remove(key) ==
    /\ ~crashed /\ entries = <<>>
    /\ \/ \* it == key_to_storage_iter_.end()
          /\ FastFind(key) = {}
          /\ last' = Called("remove", key, FALSE)
          /\ UNCHANGED <<mem, storage_, key_to_storage_iter_, crashed, evicted>>
       \/ \* storage_.erase(it->second); key_to_storage_iter_.erase(it)
          \E it \in FastFind(key) :
             /\ it.iter \in storage_
             /\ storage_' = storage_ \ {it.iter}
             /\ key_to_storage_iter_' = key_to_storage_iter_ \ {it}
             /\ mem' = Reclaim(mem, storage_', key_to_storage_iter_')
             /\ last' = Called("remove", key, TRUE)
             /\ UNCHANGED <<crashed, evicted>>
       \/ \* the lookup reads a freed slot, or erase frees a freed slot
          /\ \/ FindReadsFreed(key)
             \/ \E it \in FastFind(key) : it.iter \notin storage_
          /\ Trap("remove", key)
    /\ UNCHANGED <<current_time_, entries>>

\* What get returns when find yields the hash node it: *it->second is read
\* from the bytes now at it.iter.
GetThrough(it) ==
    IF mem[it.iter].expire_time > Now THEN mem[it.iter].value ELSE Absent

\* The values get(key) can return in the current state.
GetResults(key) ==
    IF FastFind(key) = {} THEN {Absent}
    ELSE {GetThrough(it) : it \in FastFind(key)}

\* Mutant of get: a lookup that finds the entry expired erases it from both
\* indexes.
getErasingExpired(key) ==
    /\ ~crashed /\ entries = <<>>
    /\ \/ /\ FastFind(key) = {}
          /\ last' = Called("get", key, Absent)
          /\ UNCHANGED <<mem, storage_, key_to_storage_iter_>>
       \/ \E it \in FastFind(key) :
             /\ it.iter \in storage_
             /\ last' = Called("get", key, GetThrough(it))
             /\ IF GetThrough(it) = Absent
                THEN /\ storage_' = storage_ \ {it.iter}
                     /\ key_to_storage_iter_' = key_to_storage_iter_ \ {it}
                     /\ mem' = Reclaim(mem, storage_', key_to_storage_iter_')
                ELSE UNCHANGED <<mem, storage_, key_to_storage_iter_>>
    /\ UNCHANGED <<current_time_, crashed, entries, evicted>>

\* KVStorage::get
get(key) ==
    /\ ~crashed /\ entries = <<>>
    /\ \/ /\ \E res \in GetResults(key) : last' = Called("get", key, res)
          /\ UNCHANGED <<mem, storage_, key_to_storage_iter_, crashed, evicted>>
       \/ \* the lookup or the dereference reads a freed slot
          /\ \/ FindReadsFreed(key)
             \/ \E it \in FastFind(key) : it.iter \notin storage_
          /\ Trap("get", key)
    /\ UNCHANGED <<current_time_, entries>>

\* The loop of getManySorted from position i of the traversal.
RECURSIVE Scan(_, _, _, _)
Scan(order, i, count, result) ==
    IF i > Len(order) \/ Len(result) >= count THEN result
    ELSE Scan(order, i + 1, count,
              IF mem[order[i]].expire_time > Now
              THEN Append(result, <<mem[order[i]].key, mem[order[i]].value>>)
              ELSE result)

\* Mutant of GetManySortedResult: count bounds the nodes visited, so that an
\* expired entry passed over uses up one of the count places.
GetManySortedVisited(key, count) ==
    IF count < 1 THEN <<>>
    ELSE LET order == InOrder(storage_)
             from  == LowerBound(order, key)
             upto  == Min(Len(order), from + count - 1)
         IN  Scan(SubSeq(order, 1, upto), from, count, <<>>)

\* What getManySorted(key, count) returns in the current state.
GetManySortedResult(key, count) ==
    IF count < 1 THEN <<>>
    ELSE LET order == InOrder(storage_)
         IN  Scan(order, LowerBound(order, key), count, <<>>)

\* Mutant of getManySorted: the scan erases the expired entries not below
\* key from the Ordered Index.
getManySortedPurging(key, count) ==
    /\ ~crashed /\ entries = <<>>
    /\ last' = Called("getManySorted", <<>>, GetManySortedResult(key, count))
    /\ storage_' = {s \in storage_ : \/ mem[s].expire_time > Now
                                      \/ TransparentLess(mem[s].key, key)}
    /\ mem' = Reclaim(mem, storage_', key_to_storage_iter_)
    /\ UNCHANGED <<current_time_, key_to_storage_iter_, crashed, entries, evicted>>

\* KVStorage::getManySorted
getManySorted(key, count) ==
    /\ ~crashed /\ entries = <<>>
    /\ last' = Called("getManySorted", <<>>, GetManySortedResult(key, count))
    /\ UNCHANGED <<current_time_, mem, storage_, key_to_storage_iter_, crashed,
                   entries, evicted>>

\* Mutant of IsExpired: an entry is taken as expired only after expire_time.
IsExpiredStrictlyAfter(node, now) == node.expire_time < now

\* The test of the scan of removeOneExpiredEntry.
IsExpired(node, now) == node.expire_time <= now

\* Mutant of FirstExpired: the scan stops at the first node whatever its
\* expire_time.
FirstStored(S, now) ==
    LET order == InOrder(S)
    IN  IF order = <<>> THEN {} ELSE {order[1]}

\* The node removeOneExpiredEntry stops at in the tree S: the first in
\* ascending key order whose Entry is expired at now.
FirstExpired(S, now) ==
    LET order == InOrder(S)
        hits  == {i \in 1..Len(order) : IsExpired(mem[order[i]], now)}
    IN  IF hits = {} THEN {}
        ELSE {order[CHOOSE i \in hits : \A j \in hits : i <= j]}

\* KVStorage::removeOneExpiredEntry
removeOneExpiredEntry ==
    /\ ~crashed /\ entries = <<>>
    /\ LET now == Now IN
       IF FirstExpired(storage_, now) = {}
       THEN /\ last' = Called("removeOneExpiredEntry", <<>>, Absent)
            /\ UNCHANGED <<storage_, evicted>>
       ELSE \E s \in FirstExpired(storage_, now) :
               /\ storage_' = storage_ \ {s}
               /\ last' = Called("removeOneExpiredEntry", <<>>,
                                 <<mem[s].key, mem[s].value>>)
               /\ evicted' = evicted \cup {mem[s].key}
    /\ mem' = Reclaim(mem, storage_', key_to_storage_iter_)
    /\ UNCHANGED <<current_time_, key_to_storage_iter_, crashed, entries>>

\* while (auto entry = storage->removeOneExpiredEntry()) ++removed_count;
\* run on the tree S with the clock held at now, for at most fuel calls: the
\* keys returned, the tree left, and whether the last call returned absent.
RECURSIVE Drain(_, _, _)
Drain(S, now, fuel) ==
    IF FirstExpired(S, now) = {} THEN [keys |-> <<>>, tree |-> S, absent |-> TRUE]
    ELSE IF fuel = 0 THEN [keys |-> <<>>, tree |-> S, absent |-> FALSE]
    ELSE LET s    == CHOOSE x \in FirstExpired(S, now) : TRUE
             rest == Drain(S \ {s}, now, fuel - 1)
         IN  [keys   |-> <<mem[s].key>> \o rest.keys,
              tree   |-> rest.tree,
              absent |-> rest.absent]

Next ==
    \/ \E sec \in 1..MaxTime : advance(sec)
    \/ \E key \in Keys, value \in Values, ttl \in TTLs : set(key, value, ttl)
    \/ \E key \in Keys : remove(key)
    \/ \E key \in Keys : get(key)
    \/ \E key \in StartKeys, count \in Counts : getManySorted(key, count)
    \/ removeOneExpiredEntry

Spec == Init /\ [][Next]_vars

\* A store filled by its constructor from a span of entries, then read,
\* removed from, scanned and drained while the clock advances.
NextBatch ==
    \/ construct
    \/ \E key \in BatchKeys : remove(key)
    \/ \E key \in BatchKeys : get(key)
    \/ \E sec \in 1..MaxTime : advance(sec)
    \/ \E key \in BatchStartKeys, count \in Counts : getManySorted(key, count)
    \/ removeOneExpiredEntry

SpecBatch == InitBatch /\ [][NextBatch]_vars

\* ============================================================== claims
\* The keys of the Ordered Index whose entry is alive / expired at the
\* current instant, and the entry stored for a key.
AliveAt(t, expire_at) == expire_at = TimePointMax \/ expire_at > t
LiveKeys    == {mem[s].key : s \in {x \in storage_ : AliveAt(current_time_, mem[x].expire_time)}}
ExpiredKeys == {mem[s].key : s \in {x \in storage_ : ~AliveAt(current_time_, mem[x].expire_time)}}
EntryOf(k)  == mem[CHOOSE s \in storage_ : mem[s].key = k]

\* C1 (as claimed): invariant I1, the keys of the Fast Index are the keys of
\* the Ordered Index in every reachable state.
C1_I1_KeySetsEqual == FastKeys = StoredKeys

\* C2 (as claimed): once removeOneExpiredEntry has returned a key, get of that
\* key returns absent until the key is set again, and the eviction leaves
\* what get returns for every other key as it was.
C2_EvictedKeyStaysAbsent ==
    [][~crashed' =>
        /\ \A k \in evicted' : GetResults(k)' = {Absent}
        /\ (last'.op = "removeOneExpiredEntry" /\ last'.res # Absent) =>
              \A k \in Keys \ {last'.res[1]} : GetResults(k)' = GetResults(k)]_vars

ExpiredSlots == {s \in storage_ : ~AliveAt(current_time_, mem[s].expire_time)}
LiveSlots    == storage_ \ ExpiredSlots
Range(seq)   == {seq[i] : i \in 1..Len(seq)}

\* C5: with the clock held fixed, calling removeOneExpiredEntry until it
\* returns absent ends after exactly as many successful calls as there are
\* expired entries, returns each expired key exactly once and no other, and
\* leaves every live entry stored.
C5_EvictionCompleteness ==
    \A d \in {Drain(storage_, current_time_, Cardinality(ExpiredSlots))} :
        /\ d.absent
        /\ Len(d.keys) = Cardinality(ExpiredSlots)
        /\ Range(d.keys) = ExpiredKeys
        /\ Cardinality(Range(d.keys)) = Len(d.keys)
        /\ d.tree = LiveSlots

\* C5 witness: a drain has just ended (the last call returned absent) after
\* evicting two keys, and a live entry is still stored.
C5_Witness ==
    /\ last.op = "removeOneExpiredEntry" /\ last.res = Absent
    /\ Cardinality(evicted) = 2
    /\ LiveKeys # {}

\* C6: removeOneExpiredEntry returns absent exactly when no stored entry is
\* expired, and then changes nothing; otherwise it returns the key and value
\* of an entry that was expired at the call, removes that entry from the
\* Ordered Index and no other, and never a live one.
C6_EvictsOneExpiredOrNothing ==
    [][last'.op = "removeOneExpiredEntry" =>
        IF ExpiredSlots = {}
        THEN last'.res = Absent
             /\ UNCHANGED <<mem, storage_, key_to_storage_iter_, current_time_>>
        ELSE \E s \in ExpiredSlots :
                /\ last'.res = <<mem[s].key, mem[s].value>>
                /\ storage_' = storage_ \ {s}
                /\ \A t \in storage_' : mem'[t] = mem[t]]_vars

\* C6 witness: removeOneExpiredEntry has returned an entry while a live
\* entry and a second expired entry were stored, and both are still there.
C6_Witness ==
    /\ last.op = "removeOneExpiredEntry" /\ last.res # Absent
    /\ LiveKeys # {}
    /\ ExpiredKeys # {}

C10_OrderInvariant ==
    \A key \in BatchStartKeys, count \in Counts :
        \A r \in {GetManySortedResult(key, count)} :
            /\ Len(r) <= count
            /\ \A i \in 1..Len(r) :
                  /\ ~TransparentLess(r[i][1], key)
                  /\ r[i][1] \in LiveKeys
                  /\ r[i][2] = EntryOf(r[i][1]).value
                  /\ \A j \in (i + 1)..Len(r) : TransparentLess(r[i][1], r[j][1])

\* C10 witness: getManySorted has returned two live entries, a stored
\* expired entry lying between their keys.
C10_Witness ==
    /\ last.op = "getManySorted" /\ Len(last.res) = 2
    /\ \E e \in ExpiredKeys :
          /\ TransparentLess(last.res[1][1], e)
          /\ TransparentLess(e, last.res[2][1])

\* The nodes of the live stored entries whose key is not below key.
Qualifying(key) == {s \in LiveSlots : ~TransparentLess(mem[s].key, key)}

\* C11: for every startKey and count, getManySorted returns exactly the
\* first min(count, L) of the L live stored entries whose key is not below
\* startKey, in ascending key order: the i-th pair returned is the entry
\* with exactly i - 1 qualifying live keys below it, with its value.
C11_FirstCountLive ==
    \A key \in BatchStartKeys, count \in Counts :
        \A r \in {GetManySortedResult(key, count)}, Q \in {Qualifying(key)} :
            /\ Len(r) = Min(count, Cardinality(Q))
            /\ \A i \in 1..Len(r) :
                  \E s \in Q :
                     /\ r[i] = <<mem[s].key, mem[s].value>>
                     /\ Cardinality({t \in Q : TransparentLess(mem[t].key,
                                                               mem[s].key)}) = i - 1

\* C11 witness: getManySorted with count 1 has returned one pair although two
\* live entries qualified, passing over an expired entry that lay in range
\* below the pair returned.
C11_Witness ==
    /\ last.op = "getManySorted" /\ Len(last.res) = 1
    /\ \E key \in BatchStartKeys :
          /\ last.res = GetManySortedResult(key, 1)
          /\ Cardinality(Qualifying(key)) >= 2
          /\ \E e \in ExpiredSlots :
                /\ ~TransparentLess(mem[e].key, key)
                /\ TransparentLess(mem[e].key, last.res[1][1])

\* The entries of the span the constructor has stored so far.
Processed == SubSeq(last.arg, 1, Len(last.arg) - Len(entries))
KeysOf(batch) == {batch[i][1] : i \in 1..Len(batch)}
\* The last triple of batch that carries the key k.
LastTriple(batch, k) ==
    LET idx == {i \in 1..Len(batch) : batch[i][1] = k}
    IN  batch[CHOOSE i \in idx : \A j \in idx : j <= i]

\* C12: before and right after the constructor's loop, the store is what one
\* set per triple, in input order, makes of an empty store: one entry per
\* distinct key of the triples stored so far, holding the value and the
\* expire_at of the last triple with that key, and one locator per entry
\* pointing at it; once the span is used up, getManySorted from the smallest
\* key with count the length of the span returns every distinct key once,
\* in ascending order, with that value.
C12_ConstructIsSetPerTriple ==
    last.op = "KVStorage" =>
        /\ ~crashed
        /\ StoredKeys = KeysOf(Processed)
        /\ Cardinality(storage_) = Cardinality(KeysOf(Processed))
        /\ \A s \in storage_ :
              LET t == LastTriple(Processed, mem[s].key)
              IN  /\ mem[s].value = t[2]
                  /\ mem[s].expire_time =
                         IF t[3] = 0 THEN TimePointMax ELSE current_time_ + t[3]
        /\ key_to_storage_iter_ = {Locator(mem[s].key, s, s) : s \in storage_}
        /\ entries = <<>> =>
              LET r == GetManySortedResult(<<>>, Len(last.arg))
              IN  /\ Len(r) = Cardinality(KeysOf(last.arg))
                  /\ \A i \in 1..Len(r) :
                        /\ r[i][1] \in KeysOf(last.arg)
                        /\ r[i][2] = LastTriple(last.arg, r[i][1])[2]
                        /\ \A j \in (i + 1)..Len(r) :
                              TransparentLess(r[i][1], r[j][1])

\* C12 witness: the constructor has stored a span of three triples whose
\* first and last carry the same key with different values, the second
\* another key.
C12_Witness ==
    /\ last.op = "KVStorage" /\ entries = <<>> /\ Len(last.arg) = 3
    /\ last.arg[1][1] = last.arg[3][1]
    /\ last.arg[1][2] # last.arg[3][2]
    /\ last.arg[2][1] # last.arg[1][1]

C14_GetReadOnly ==
    [][/\ (last'.op = "get" /\ ~crashed') =>
              UNCHANGED <<mem, storage_, key_to_storage_iter_, current_time_>>
       /\ (storage_ \ storage_' # {} /\ ~crashed') =>
              last'.op \in {"remove", "removeOneExpiredEntry"}]_vars

\* C14 witness: get has returned absent for a key whose entry is stored and
\* expired, and the entry is still stored.
C14_Witness ==
    /\ last.op = "get" /\ ~crashed /\ last.res = Absent
    /\ last.arg \in ExpiredKeys

\* C15: every getManySorted step, whatever startKey and count, leaves the
\* Ordered Index, the Fast Index and the clock as they were and returns
\* normally, so the expired entries it passes over remain stored.
C15_GetManySortedReadOnly ==
    [][last'.op = "getManySorted" =>
          UNCHANGED <<mem, storage_, key_to_storage_iter_, current_time_,
                      crashed>>]_vars

\* C15 witness: getManySorted has returned one live entry after passing over
\* two expired entries with smaller keys, and both are still stored.
C15_Witness ==
    /\ last.op = "getManySorted" /\ Len(last.res) = 1
    /\ Cardinality(ExpiredSlots) = 2
    /\ \A e \in ExpiredSlots : TransparentLess(mem[e].key, last.res[1][1])

\* C16 (as claimed): in every reachable state the string_view and the
\* StorageIterator of each hash node point at a node that is linked into
\* the Ordered Index and holds the key the hash node was inserted under.
C16_NoDanglingLocator ==
    \A e \in key_to_storage_iter_ :
        /\ e.iter \in storage_ /\ mem[e.iter].key = e.hkey
        /\ e.view \in storage_ /\ mem[e.view].key = e.hkey

\* C17 (as claimed): once get(k) returns absent it keeps returning absent
\* until the next set(k): no step other than a set of k itself (a set,
\* remove or eviction of another key, a get, a getManySorted, an advance of
\* the clock) takes a state where get(k) returns absent to one where get(k)
\* returns a value.
C17_OnceAbsentStaysAbsent ==
    [][\A k \in Keys :
        (/\ GetResults(k) = {Absent}
         /\ ~crashed'
         /\ ~(last'.op = "set" /\ last'.arg[1] = k)) =>
            GetResults(k)' = {Absent}]_vars

\* The stored entry at node s is visible: get of its key returns its value
\* and getManySorted from its key with count 1 returns it.
Visible(s) ==
    /\ GetResults(mem[s].key) = {mem[s].value}
    /\ GetManySortedResult(mem[s].key, 1) = <<<<mem[s].key, mem[s].value>>>>
\* The stored entry at node s is one removeOneExpiredEntry takes as expired.
Evictable(s) == IsExpired(mem[s], Now)

OtherEntries(k) ==
    {<<mem[s].key, mem[s].value, mem[s].expire_time>> :
        s \in {x \in storage_ : mem[x].key # k}}

\* C19 (as claimed): a set or a remove of k that returns leaves the entries
\* of every other key as they were, adding and dropping none, and a
\* removeOneExpiredEntry that returns an entry leaves the entries of every
\* key but the one returned as they were.
C19_PerKeyFrame ==
    [][~crashed' =>
        \A k \in Keys :
           (\/ last'.op = "set" /\ last'.arg[1] = k
            \/ last'.op = "remove" /\ last'.arg = k
            \/ /\ last'.op = "removeOneExpiredEntry"
               /\ last'.res # Absent
               /\ last'.res[1] = k) =>
              OtherEntries(k)' = OtherEntries(k)]_vars
====
